---- MODULE Spec2Model ----
(***************************************************************************)
(* Load-test actors of src/locustfile.py: every actor kind is a class with *)
(* class-level default attributes, an on_start that logs in and seeds the  *)
(* actor's caches, and a set of tasks, each a straight-line sequence of    *)
(* blocking HTTP (or WebSocket) calls.  One step of the model is one       *)
(* network call together with the Python code that surrounds it.  The      *)
(* scheduler that drives the actors is the external framework; it is       *)
(* modelled from section 4.3 and 7 of the specification.                   *)
(***************************************************************************)
EXTENDS Integers, Sequences, FiniteSets, TLC

\* ------------------------------------------------------------- bounds
\* Twarrt IDs the server hands out before it refuses to create more.
MaxTwarrt == 2
\* Group IDs the server hands out before it refuses to create more.
MaxGroup == 2
\* Sockets an actor can hold open before the server refuses the handshake.
MaxSocks == 2

\* Two actors: enough for every pairwise interleaving the claims speak of.
Actors == {"u1", "u2"}

\* ------------------------------------------------------- Python values
\* A Python str is a sequence of parts, so that "Bearer " + token is \o.
EmptyStr == << >>
None == << "None" >>
NoAuth == << "(no header)" >>
Digits == << "1", "2", "3", "4", "5", "6", "7", "8", "9" >>
\* str(n) of a positive JSON number
Str(n) == << "#", Digits[n] >>
\* { "Authorization": "Bearer " + token }
Bearer(tok) == << "Bearer " >> \o tok
\* What the server issues for a user: the token and userID of /api/v3/auth/login,
\* the session cookie of /login.
Token(u) == << "token", u >>
UserID(u) == << "uid", u >>
Cookie(u) == << "session", u >>

\* ------------------------------------------------ request descriptors
NoArg == [k |-> "none", v |-> "", keep |-> "", str |-> FALSE]
\* random.choice(self.<attr>), optionally kept in a local
Choice(attr, keep, s) == [k |-> "choice", v |-> attr, keep |-> keep, str |-> s]
\* self.<attr>
Attr(attr) == [k |-> "attr", v |-> attr, keep |-> "", str |-> FALSE]
\* a local variable of the task
Local(l, s) == [k |-> "local", v |-> l, keep |-> "", str |-> s]

NoCond == [l |-> "", ne |-> EmptyStr]
\* if <local> != <value>:
IfNot(l, val) == [l |-> l, ne |-> val]

\* <target> = response.json()[f]   (mode "index": a missing field raises)
\* <target> = response.headers.get(f)   (mode "get": a missing field gives None)
ToAttr(f, attr, wrap) == [f |-> f, k |-> "attr", v |-> attr, wrap |-> wrap, mode |-> "index"]
ToLocal(f, l) == [f |-> f, k |-> "local", v |-> l, wrap |-> "raw", mode |-> "index"]
GetAttr(f, attr) == [f |-> f, k |-> "attr", v |-> attr, wrap |-> "raw", mode |-> "get"]
GetLocal(f, l) == [f |-> f, k |-> "local", v |-> l, wrap |-> "raw", mode |-> "get"]

\* self.client.<m>(url, headers = self.<auth>, name = name), then the outs
Req(m, url, name, auth, arg, outs) ==
    [m |-> m, url |-> url, name |-> name, auth |-> auth, arg |-> arg,
     outs |-> outs, user |-> "", when |-> NoCond, json |-> << >>]
\* the same inside an if
ReqIf(c, m, url, name, auth, arg, outs) ==
    [m |-> m, url |-> url, name |-> name, auth |-> auth, arg |-> arg,
     outs |-> outs, user |-> "", when |-> c, json |-> << >>]
\* the same with a JSON payload that holds self.<attr> for each attr of json
ReqJson(json, m, url, name, auth, arg, outs) ==
    [m |-> m, url |-> url, name |-> name, auth |-> auth, arg |-> arg,
     outs |-> outs, user |-> "", when |-> NoCond, json |-> json]
\* self.client.post("/api/v3/auth/login", auth=(user, 'password'))
ApiLogin(user, outs) ==
    [m |-> "POST", url |-> "/api/v3/auth/login", name |-> "", auth |-> "", arg |-> NoArg,
     outs |-> outs, user |-> user, when |-> NoCond, json |-> << >>]
\* self.client.post("/login", json={"username": user, ...})
WebLogin(user, outs) ==
    [m |-> "POST", url |-> "/login", name |-> "", auth |-> "", arg |-> NoArg,
     outs |-> outs, user |-> user, when |-> NoCond, json |-> << >>]

\* ---------------------------------------------------------- the classes
Kinds == {"LoggedOutUser", "TwarrtAPIUser", "TwarrtUser", "ForumAPIUser", "ForumWebUser",
          "SeamailAPIUser", "SeamailWebUser", "EventsAPIUser", "EventsWebUser",
          "BoardgamesAPIUser", "BoardgamesWebUser", "KaraokeAPIUser", "KaraokeWebUser",
          "AlertAPIUser", "ProfileAPIUser", "SeamailWebsocketUser"}

\* The class-level attributes: one object per class, shared by its instances
\* until an instance assigns its own.
ClassDefaults ==
    [TwarrtAPIUser |->
        [samAuth |-> Bearer(EmptyStr), heidiAuth |-> Bearer(EmptyStr),
         jamesAuth |-> Bearer(EmptyStr), existingTwarrts |-> {}],
     TwarrtUser |->
        [samAuth |-> Bearer(EmptyStr), existingTwarrts |-> {}],
     ForumAPIUser |->
        [samAuth |-> Bearer(EmptyStr), heidiAuth |-> Bearer(EmptyStr),
         jamesAuth |-> Bearer(EmptyStr)],
     \* forumIDs = "": the empty str, like the empty list, is an empty
     \* sequence to random.choice, the only code that reads it
     ForumWebUser |->
        [jamesAuth |-> Bearer(EmptyStr), eventsCategory |-> EmptyStr, forumIDs |-> {}],
     SeamailAPIUser |->
        [samAuth |-> Bearer(EmptyStr), samID |-> EmptyStr,
         heidiAuth |-> Bearer(EmptyStr), heidiID |-> EmptyStr,
         jamesAuth |-> Bearer(EmptyStr), jamesID |-> EmptyStr, groupID |-> EmptyStr],
     ProfileAPIUser |->
        [jamesAuth |-> Bearer(EmptyStr), jamesID |-> EmptyStr],
     SeamailWebsocketUser |->
        [samAuth |-> Bearer(EmptyStr), samID |-> EmptyStr,
         heidiAuth |-> Bearer(EmptyStr), heidiID |-> EmptyStr,
         jamesAuth |-> Bearer(EmptyStr), jamesID |-> EmptyStr, groupID |-> EmptyStr,
         cookie |-> EmptyStr],
     SeamailWebUser |->
        [jamesAuth |-> Bearer(EmptyStr), jamesID |-> EmptyStr,
         heidiAuth |-> Bearer(EmptyStr), heidiID |-> EmptyStr],
     EventsAPIUser |->
        [jamesAuth |-> Bearer(EmptyStr), jamesID |-> EmptyStr,
         heidiAuth |-> Bearer(EmptyStr), heidiID |-> EmptyStr],
     EventsWebUser |-> [jamesAuth |-> Bearer(EmptyStr), jamesID |-> EmptyStr],
     BoardgamesAPIUser |-> [jamesAuth |-> Bearer(EmptyStr), jamesID |-> EmptyStr],
     BoardgamesWebUser |-> [heidiAuth |-> Bearer(EmptyStr)],
     KaraokeAPIUser |-> [heidiAuth |-> Bearer(EmptyStr)],
     KaraokeWebUser |-> [none |-> EmptyStr],
     AlertAPIUser |-> [jamesAuth |-> Bearer(EmptyStr), jamesID |-> EmptyStr],
     LoggedOutUser |-> [none |-> EmptyStr]]

LoggedOutUser_on_start == <<
    WebLogin("sam", << >>) >>

LoggedOutUser_rootPage == <<
    Req("GET", "/", "", "", NoArg, << >>) >>

LoggedOutUser_eventsPage == <<
    Req("GET", "/events", "", "", NoArg, << >>) >>

\* the first def boardgamePage
LoggedOutUser_boardgamePage_1 == <<
    Req("GET", "/boardgames", "", "", NoArg, << >>) >>

\* the second def boardgamePage
LoggedOutUser_boardgamePage_2 == <<
    Req("GET", "/karaoke", "", "", NoArg, << >>) >>

\* The class body read with the first def of a name kept and the later one
\* dropped.
LoggedOutUser_tasks_FirstDefKept ==
    ("boardgamePage" :> LoggedOutUser_boardgamePage_1) @@
    ("boardgamePage" :> LoggedOutUser_boardgamePage_2) @@
    ("eventsPage" :> LoggedOutUser_eventsPage) @@
    ("rootPage" :> LoggedOutUser_rootPage)

\* The class body binds its names in order; a later def of a name replaces
\* the earlier one (f @@ g keeps f where both have the name).
LoggedOutUser_tasks ==
    ("boardgamePage" :> LoggedOutUser_boardgamePage_2) @@
    ("boardgamePage" :> LoggedOutUser_boardgamePage_1) @@
    ("eventsPage" :> LoggedOutUser_eventsPage) @@
    ("rootPage" :> LoggedOutUser_rootPage)

TwarrtAPIUser_on_start == <<
    ApiLogin("sam", << ToAttr("token", "samAuth", "bearer") >>),
    ApiLogin("heidi", << ToAttr("token", "heidiAuth", "bearer") >>),
    ApiLogin("james", << ToAttr("token", "jamesAuth", "bearer") >>),
    Req("GET", "/api/v3/twitarr", "", "samAuth", NoArg,
        << ToAttr("[twarrtID]", "existingTwarrts", "raw") >>) >>

TwarrtAPIUser_twarrts == <<
    Req("GET", "/api/v3/twitarr", "", "samAuth", NoArg, << >>) >>

TwarrtAPIUser_twarrtDetail == <<
    Req("GET", "/api/v3/twitarr/{}", "/api/v3/twitarr/:id", "samAuth",
        Choice("existingTwarrts", "", TRUE), << >>) >>

TwarrtAPIUser_newTwarrt == <<
    Req("POST", "/api/v3/twitarr/create", "", "samAuth", NoArg,
        << ToLocal("twarrtID", "maxTwarrt") >>),
    Req("POST", "/api/v3/twitarr/{}/love", "/api/v3/twitarr/:id/love", "heidiAuth",
        Local("maxTwarrt", TRUE), << >>),
    Req("POST", "/api/v3/twitarr/{}/like", "/api/v3/twitarr/:id/like", "heidiAuth",
        Local("maxTwarrt", TRUE), << >>),
    Req("POST", "/api/v3/twitarr/{}/love", "/api/v3/twitarr/:id/love", "jamesAuth",
        Local("maxTwarrt", TRUE), << >>),
    Req("POST", "/api/v3/twitarr/{}/unreact", "/api/v3/twitarr/:id/unreact", "jamesAuth",
        Local("maxTwarrt", TRUE), << >>),
    Req("POST", "/api/v3/twitarr/{}/bookmark", "/api/v3/twitarr/:id/bookmark", "jamesAuth",
        Local("maxTwarrt", TRUE), << >>),
    Req("POST", "/api/v3/twitarr/{}/bookmark/remove", "/api/v3/twitarr/:id/bookmark/remove",
        "jamesAuth", Local("maxTwarrt", TRUE), << >>),
    Req("POST", "/api/v3/twitarr/{}/update", "/api/v3/twitarr/:id/update", "samAuth",
        Local("maxTwarrt", TRUE), << >>) >>

TwarrtAPIUser_createDeleteTwarrt == <<
    Req("POST", "/api/v3/twitarr/create", "", "samAuth", NoArg,
        << ToLocal("twarrtID", "newTwarrtID") >>),
    Req("DELETE", "/api/v3/twitarr/{}", "/api/v3/twitarr/:id", "samAuth",
        Local("newTwarrtID", TRUE), << >>) >>

TwarrtAPIUser_replyToTwarrt == <<
    Req("POST", "/api/v3/twitarr/{}/reply", "/api/v3/twitarr/:id/reply", "heidiAuth",
        Choice("existingTwarrts", "", TRUE), << ToLocal("twarrtID", "newTwarrtID") >>) >>

\* reportTwarrt written so that it keeps the new ID:
\* self.existingTwarrts = [ reportTwarrt ]
TwarrtAPIUser_reportTwarrt_Caching == <<
    Req("POST", "/api/v3/twitarr/create", "", "samAuth", NoArg,
        << ToLocal("twarrtID", "reportTwarrt"), ToAttr("twarrtID", "existingTwarrts", "list") >>),
    Req("POST", "/api/v3/twitarr/{}/report", "/api/v3/twitarr/:id/report", "heidiAuth",
        Local("reportTwarrt", TRUE), << >>) >>

TwarrtAPIUser_reportTwarrt == <<
    Req("POST", "/api/v3/twitarr/create", "", "samAuth", NoArg,
        << ToLocal("twarrtID", "reportTwarrt") >>),
    Req("POST", "/api/v3/twitarr/{}/report", "/api/v3/twitarr/:id/report", "heidiAuth",
        Local("reportTwarrt", TRUE), << >>) >>

\* The @task methods of the class, by name.
TwarrtAPIUser_tasks ==
    [twarrts |-> TwarrtAPIUser_twarrts,
     twarrtDetail |-> TwarrtAPIUser_twarrtDetail,
     newTwarrt |-> TwarrtAPIUser_newTwarrt,
     createDeleteTwarrt |-> TwarrtAPIUser_createDeleteTwarrt,
     replyToTwarrt |-> TwarrtAPIUser_replyToTwarrt,
     reportTwarrt |-> TwarrtAPIUser_reportTwarrt]

TwarrtUser_on_start == <<
    WebLogin("sam", << >>),
    ApiLogin("sam", << ToAttr("token", "samAuth", "bearer") >>),
    Req("GET", "/api/v3/twitarr", "", "samAuth", NoArg,
        << ToAttr("[twarrtID]", "existingTwarrts", "raw") >>) >>

TwarrtUser_root == <<
    Req("GET", "/tweets", "", "", NoArg, << >>) >>

TwarrtUser_detail == <<
    Req("GET", "/tweets/{}", "/tweets/:id", "",
        Choice("existingTwarrts", "tweetToDetail", TRUE), << >>),
    Req("GET", "/api/v3/twitarr/{}", "/api/v3/twitarr/:id", "samAuth",
        Local("tweetToDetail", FALSE), << ToLocal("author.username", "author") >>),
    ReqIf(IfNot("author", << "sam" >>), "POST", "/tweets/{}/like", "/tweets/:id/like", "",
        Local("tweetToDetail", FALSE), << >>),
    ReqIf(IfNot("author", << "sam" >>), "POST", "/tweets/{}/unreact", "/tweets/:id/unreact", "",
        Local("tweetToDetail", FALSE), << >>) >>

TwarrtUser_mentionSelf == <<
    Req("GET", "/tweets?mentionSelf=true", "", "", NoArg, << >>) >>

TwarrtUser_replyGroup == <<
    Req("GET", "/tweets?replyGroup={}", "/tweets?replyGroup=:id", "",
        Choice("existingTwarrts", "", TRUE), << >>) >>

TwarrtUser_editTweet == <<
    Req("GET", "/tweets/edit/{}", "/tweets/edit/:id", "",
        Choice("existingTwarrts", "", TRUE), << >>) >>

TwarrtUser_bookmarkTweet == <<
    Req("POST", "/tweets/{}/bookmark", "/tweets/:id/bookmark", "",
        Choice("existingTwarrts", "tweetToBookmark", TRUE), << >>),
    Req("DELETE", "/tweets/{}/bookmark", "/tweets/:id/bookmark", "",
        Local("tweetToBookmark", FALSE), << >>) >>

TwarrtUser_createEditDeleteTweet == <<
    Req("POST", "/tweets//create", "/tweets/create", "", NoArg, << >>),
    Req("POST", "/api/v3/twitarr/create", "", "samAuth", NoArg,
        << ToLocal("twarrtID", "newTwarrtID") >>),
    Req("POST", "/tweets/edit/{}", "/tweets/edit/:id", "", Local("newTwarrtID", TRUE), << >>),
    Req("POST", "/tweets/reply/{}", "/tweets/reply/:id", "", Local("newTwarrtID", TRUE), << >>),
    Req("POST", "/tweets/{}/delete", "/tweets/:id/delete", "", Local("newTwarrtID", TRUE), << >>) >>

TwarrtUser_tasks ==
    [root |-> TwarrtUser_root,
     detail |-> TwarrtUser_detail,
     mentionSelf |-> TwarrtUser_mentionSelf,
     replyGroup |-> TwarrtUser_replyGroup,
     editTweet |-> TwarrtUser_editTweet,
     bookmarkTweet |-> TwarrtUser_bookmarkTweet,
     createEditDeleteTweet |-> TwarrtUser_createEditDeleteTweet]

\* --------------------------------------------------------------- state
VARIABLES
    kind,      \* the class of each actor
    phase,     \* pending, starting (in on_start), running, stopped, failed
    pc,        \* the method an actor is in and the call it is at
    cls,       \* the class-level attributes, one object per class
    inst,      \* the attributes each instance has assigned on self
    loc,       \* the local variables of the method an actor is in
    active,    \* methods (on_start, tasks) an actor has begun and not left
    calls,     \* network calls the actor's current (or last) action has issued
    errs,      \* what that action has had recorded against it
    lastReq,   \* the last request that action sent
    srv,       \* the server: live twarrts, next twarrt ID, groups created and
               \* the members of each
    socks,     \* WebSocket connections each actor holds open
    stop       \* the global stop signal

vars == << kind, phase, pc, cls, inst, loc, active, calls, errs, lastReq, srv, socks, stop >>

\* pc[a] = At(t, i): in method t at its i-th call; i = 0: t has been left and
\* the actor is in the wait that follows it; Idle: the wait is over.
Idle == [t |-> "", i |-> 0]
At(t, i) == [t |-> t, i |-> i]
NoLocals == [x \in {} |-> EmptyStr]
NoReq == [m |-> "", url |-> "", name |-> "", cred |-> NoAuth, seg |-> EmptyStr,
          arg |-> "none", json |-> << >>, attrs |-> {}]

\* The attributes of self that the code reads to build request d.
AttrsRead(d) ==
    (IF d.auth = "" THEN {} ELSE {d.auth})
    \cup (IF d.arg.k \in {"attr", "choice"} THEN {d.arg.v} ELSE {})
    \cup { d.json[j] : j \in DOMAIN d.json }

\* self.<x>: the instance's own attribute, else the class's
Read(a, x) == IF x \in DOMAIN inst[a] THEN inst[a][x] ELSE cls[kind[a]][x]

SetKey(f, x, v) == [y \in DOMAIN f \cup {x} |-> IF y = x THEN v ELSE f[y]]

\* An assignment that would land on the class object:  type(self).<x> = v
Assign_OnClass(st, K, x, v) == [st EXCEPT !.cls[K][x] = v]

\* self.<x> = v  creates or rebinds the attribute on the instance; the class
\* object is left alone.  st is [inst, cls, loc, raised] for the actor of class K.
Assign(st, K, x, v) == [st EXCEPT !.inst = SetKey(st.inst, x, v)]

\* ------------------------------------------------------------ the server
OkBody == [ok |-> << "true" >>]
ErrBody == [error |-> << "true" >>]
NoBody == [nobody |-> << "true" >>]

Reply(st, body, s) == [st |-> st, body |-> body, srv |-> s]

\* An error status with an error body, or no response at all.
Failures(s) == { Reply("err", ErrBody, s), Reply("down", NoBody, s) }

\* The twarrt a path segment names, 0 when it names none.
TwarrtNum(seg) ==
    IF \E n \in 1..MaxTwarrt : Str(n) = seg
    THEN CHOOSE n \in 1..MaxTwarrt : Str(n) = seg
    ELSE 0

CreateTwarrt(s) ==
    IF s.next <= MaxTwarrt
    THEN { Reply("ok", [twarrtID |-> s.next],
                 [s EXCEPT !.live = @ \cup {s.next}, !.next = @ + 1]) }
    ELSE {}

Users == {"sam", "heidi", "james"}
SessionCookies == { Cookie(u) : u \in Users }
GroupID(n) == << "group", Digits[n] >>

\* GET /api/v3/forum/categories when every category the code looks for exists
Categories ==
    ("categoryID[Egype]" :> << "cat-egype" >>) @@
    ("categoryID[General]" :> << "cat-general" >>) @@
    ("categoryID[Event Forums]" :> << "cat-events" >>)

\* GET /api/v3/forum/categories/<id>: with a thread, and with none
Threads ==
    ("len(forumThreads)" :> << "1" >>) @@
    ("[forumID]" :> { << "forum-1" >> }) @@
    ("forumThreads[0].forumID" :> << "forum-1" >>)
NoThreads ==
    ("len(forumThreads)" :> << "0" >>) @@
    ("[forumID]" :> {})

\* The group a path segment names, 0 when it names none.
GroupNum(seg) ==
    IF \E n \in 1..MaxGroup : GroupID(n) = seg
    THEN CHOOSE n \in 1..MaxGroup : GroupID(n) = seg
    ELSE 0

\* whose bearer token request q carries
Requester(q) == { u \in Users : q.cred = Bearer(Token(u)) }

\* the members a group has when q creates it: its creator and the initialUsers
MembersAsked(q) ==
    Requester(q) \cup { u \in Users : \E j \in DOMAIN q.json : q.json[j] = UserID(u) }

TwarrtUrls == {
    "/api/v3/twitarr/{}", "/api/v3/twitarr/{}/love", "/api/v3/twitarr/{}/like",
    "/api/v3/twitarr/{}/unreact", "/api/v3/twitarr/{}/bookmark",
    "/api/v3/twitarr/{}/bookmark/remove", "/api/v3/twitarr/{}/update",
    "/api/v3/twitarr/{}/reply", "/api/v3/twitarr/{}/report",
    "/tweets/{}", "/tweets/{}/like", "/tweets/{}/unreact", "/tweets?replyGroup={}",
    "/tweets/edit/{}", "/tweets/{}/bookmark", "/tweets/reply/{}", "/tweets/{}/delete" }

\* The responses the server can give to request q = [d, seg, cred, json, socks] in
\* state s, each with the server state it leaves.
Respond(q, s) ==
    LET d == q.d
        n == TwarrtNum(q.seg)
    IN  (IF d.m = "WS-CLOSE" THEN {} ELSE Failures(s)) \cup
        CASE d.url = "/api/v3/auth/login" ->
                { Reply("ok", [token |-> Token(d.user), userID |-> UserID(d.user)], s) }
          [] d.url = "/login" ->
                { Reply("ok", ("set-cookie" :> Cookie(d.user)), s), Reply("ok", OkBody, s) }
          [] d.url = "/api/v3/twitarr" ->
                { Reply("ok", ("[twarrtID]" :> s.live), s) }
          [] d.url = "/api/v3/twitarr/create" -> CreateTwarrt(s)
          [] d.url \in TwarrtUrls /\ n \notin s.live -> {}
          [] d.url = "/api/v3/twitarr/{}/reply" -> CreateTwarrt(s)
          [] d.url = "/api/v3/twitarr/{}" /\ d.m = "DELETE" ->
                { Reply("ok", OkBody, [s EXCEPT !.live = @ \ {n}]) }
          [] d.url = "/tweets/{}/delete" ->
                { Reply("ok", OkBody, [s EXCEPT !.live = @ \ {n}]) }
          [] d.url = "/api/v3/twitarr/{}" /\ d.m = "GET" ->
                { Reply("ok", ("author.username" :> << "sam" >>), s),
                  Reply("ok", ("author.username" :> << "heidi" >>), s) }
          [] d.url = "/api/v3/forum/categories" ->
                { Reply("ok", Categories, s), Reply("ok", OkBody, s) }
          [] d.url = "/api/v3/forum/categories/{}" ->
                IF \E c \in DOMAIN Categories : Categories[c] = q.seg
                THEN { Reply("ok", Threads, s), Reply("ok", NoThreads, s) }
                ELSE {}
          [] d.url = "/api/v3/forum/{}" ->
                { Reply("ok", ("choice(postID[author!=sam])" :> 1), s), Reply("ok", OkBody, s) }
          [] d.url = "/api/v3/forum/categories/{}/create" ->
                { Reply("ok", [forumID |-> << "forum-2" >>], s) }
          [] d.url = "/api/v3/forum/{}/create" ->
                { Reply("ok", [postID |-> 2], s) }
          [] d.url = "/api/v3/group/create" ->
                IF s.groups < MaxGroup
                THEN { Reply("ok", [groupID |-> GroupID(s.groups + 1)],
                             [s EXCEPT !.groups = @ + 1,
                                       !.members = Append(@, MembersAsked(q))]) }
                ELSE {}
          [] d.url = "/api/v3/group/{}" ->
                IF /\ GroupNum(q.seg) \in 1..s.groups
                   /\ Requester(q) \subseteq s.members[GroupNum(q.seg)]
                   /\ Requester(q) # {}
                THEN { Reply("ok", [groupID |-> q.seg], s) }
                ELSE {}
          [] d.url = "/api/v3/events" ->
                { Reply("ok", ("choice([eventID])" :> << "event-1" >>), s),
                  Reply("ok", OkBody, s) }
          [] d.url = "/api/v3/boardgames" ->
                { Reply("ok", ("choice(gameArray[gameID])" :> << "game-1" >>), s),
                  Reply("ok", OkBody, s) }
          [] d.url = "/api/v3/group/{}/post" ->
                { Reply("ok", [postID |-> 1], s) }
          [] d.m = "WS" ->
                IF q.cred \in SessionCookies /\ q.socks < MaxSocks
                THEN { Reply("ok", OkBody, s) }
                ELSE {}
          [] OTHER -> { Reply("ok", OkBody, s) }

\* --------------------------------------------------- one call of a method
Seg(v, s) == IF s THEN Str(v) ELSE v

\* The values the path argument can take; none when random.choice is given
\* an empty sequence.
ArgChoices(a, arg, L) ==
    CASE arg.k = "none" -> { EmptyStr }
      [] arg.k = "choice" -> { Seg(x, arg.str) : x \in Read(a, arg.v) }
      [] arg.k = "attr" -> { Read(a, arg.v) }
      [] arg.k = "local" -> { Seg(L[arg.v], arg.str) }

Cred(a, d) == IF d.auth = "" THEN NoAuth ELSE Read(a, d.auth)

\* "bearer": { "Authorization": "Bearer " + v };  "list": [ v ];  "raw": v
Wrap(v, w) == IF w = "bearer" THEN Bearer(v) ELSE IF w = "list" THEN {v} ELSE v

\* The assignments that follow a call, in order; the first field that cannot be
\* read raises and the rest are not reached.
RECURSIVE Bind(_, _, _, _, _)
Bind(outs, k, r, K, st) ==
    IF k > Len(outs) \/ st.raised THEN st
    ELSE LET o == outs[k]
             present == r.st = "ok" /\ o.f \in DOMAIN r.body
             readable == IF o.mode = "get" THEN r.st # "down" ELSE present
             val == IF present THEN Wrap(r.body[o.f], o.wrap) ELSE None
         IN  IF ~readable THEN [st EXCEPT !.raised = TRUE]
             ELSE Bind(outs, k + 1, r, K,
                       IF o.k = "attr" THEN Assign(st, K, o.v, val)
                       ELSE [st EXCEPT !.loc = SetKey(st.loc, o.v, val)])

CondOK(c, L) == c.l = "" \/ (c.l \in DOMAIN L /\ L[c.l] # c.ne)

\* The next call the method reaches after call i, 0 when it returns.
RECURSIVE NextIdx(_, _, _)
NextIdx(prog, i, L) ==
    IF i >= Len(prog) THEN 0
    ELSE IF CondOK(prog[i + 1].when, L) THEN i + 1
    ELSE NextIdx(prog, i + 1, L)

\* websocket calls raise on failure; self.client calls return the response.
Raises(d, r) == d.m \in {"WS", "WS-SEND"} /\ r.st # "ok"

\* A connection counted as open whether or not the handshake succeeded.
SocksAfter_Leaking(n, d, r) ==
    IF d.m = "WS" THEN n + 1
    ELSE IF d.m = "WS-CLOSE" /\ n > 0 THEN n - 1
    ELSE n

SocksAfter(n, d, r) ==
    IF d.m = "WS" /\ r.st = "ok" THEN n + 1
    ELSE IF d.m = "WS-CLOSE" /\ n > 0 THEN n - 1
    ELSE n

\* ------------------------------------------------------- the scheduler
\* An exception out of on_start ends the actor; an exception out of a task is
\* recorded against that task and the actor stays in its loop.
OnStartRaised == "failed"
TaskRaised == "running"

PhaseAfter(ph, raised) ==
    IF ph \in {"pending", "starting"} THEN (IF raised THEN OnStartRaised ELSE "running")
    ELSE (IF raised THEN TaskRaised ELSE ph)

\* pending -> on_start: a pending actor is started unless the run is stopping.
CanSpawn(a) == phase[a] = "pending" /\ ~stop

\* A scheduler that would select the next task for an actor still inside its
\* previous one.
CanSelect_Overlapping(a) == phase[a] = "running" /\ ~stop

\* running loop: wait, select, execute.  A task is selected only for an actor
\* that has left its previous method, and not once the run is stopping.
CanSelect(a) == phase[a] = "running" /\ pc[a] = Idle /\ ~stop

\* ----------------------------------------------------- a call, executed
\* The exception leaves the method before the call: nothing is sent, nothing
\* is assigned.  b is what the action has recorded so far.
RaiseBeforeCall(a, t, b) ==
    /\ pc' = [pc EXCEPT ![a] = At(t, 0)]
    /\ errs' = [errs EXCEPT ![a] = b.errs \cup {"exception"}]
    /\ phase' = [phase EXCEPT ![a] = PhaseAfter(phase[a], TRUE)]
    /\ calls' = [calls EXCEPT ![a] = b.calls]
    /\ lastReq' = [lastReq EXCEPT ![a] = b.lastReq]
    /\ loc' = [loc EXCEPT ![a] = b.loc]
    /\ active' = [active EXCEPT ![a] = b.active - 1]
    /\ UNCHANGED << kind, cls, inst, srv, socks, stop >>

Call(a, t, prog, i, b, d, seg, r) ==
    LET l1 == IF d.arg.keep = "" THEN b.loc ELSE SetKey(b.loc, d.arg.keep, seg)
        st0 == [inst |-> inst[a], cls |-> cls, loc |-> l1, raised |-> Raises(d, r)]
        st == Bind(d.outs, 1, r, kind[a], st0)
        nxt == IF st.raised THEN 0 ELSE NextIdx(prog, i, st.loc)
    IN  /\ calls' = [calls EXCEPT ![a] = b.calls + 1]
        /\ lastReq' = [lastReq EXCEPT ![a] =
               [m |-> d.m, url |-> d.url, name |-> d.name, cred |-> Cred(a, d), seg |-> seg,
                arg |-> d.arg.k,
                json |-> [j \in DOMAIN d.json |-> Read(a, d.json[j])],
                attrs |-> AttrsRead(d)]]
        /\ srv' = r.srv
        /\ socks' = [socks EXCEPT ![a] = SocksAfter(@, d, r)]
        /\ inst' = [inst EXCEPT ![a] = st.inst]
        /\ cls' = st.cls
        /\ loc' = [loc EXCEPT ![a] = st.loc]
        /\ errs' = [errs EXCEPT ![a] =
               b.errs \cup (IF r.st # "ok" THEN {"http"} ELSE {})
                      \cup (IF st.raised THEN {"exception"} ELSE {})]
        /\ pc' = [pc EXCEPT ![a] = At(t, nxt)]
        /\ phase' = [phase EXCEPT ![a] =
               IF nxt = 0 THEN PhaseAfter(phase[a], st.raised)
               ELSE IF @ = "pending" THEN "starting" ELSE @]
        /\ active' = [active EXCEPT ![a] = IF nxt = 0 THEN b.active - 1 ELSE b.active]
        /\ UNCHANGED << kind, stop >>

\* The i-th call of method t: evaluate its arguments, send it, read the response.
Exec(a, t, prog, i, b) ==
    LET d == prog[i]
        segs == ArgChoices(a, d.arg, b.loc)
    IN  IF segs = {} THEN RaiseBeforeCall(a, t, b)
        ELSE \E seg \in segs :
               \E r \in Respond([d |-> d, seg |-> seg, cred |-> Cred(a, d),
                                 json |-> [j \in DOMAIN d.json |-> Read(a, d.json[j])],
                                 socks |-> socks[a]], srv) :
                  Call(a, t, prog, i, b, d, seg, r)

\* A method with no call in it returns at once.
ReturnAtOnce(a, t) ==
    /\ pc' = [pc EXCEPT ![a] = At(t, 0)]
    /\ phase' = [phase EXCEPT ![a] = PhaseAfter(phase[a], FALSE)]
    /\ errs' = [errs EXCEPT ![a] = {}]
    /\ calls' = [calls EXCEPT ![a] = 0]
    /\ lastReq' = [lastReq EXCEPT ![a] = NoReq]
    /\ loc' = [loc EXCEPT ![a] = NoLocals]
    /\ UNCHANGED << kind, cls, inst, active, srv, socks, stop >>

\* Entering method t: a fresh frame and a fresh record, then its first call.
Enter(a, t, prog) ==
    IF prog = << >> THEN ReturnAtOnce(a, t)
    ELSE Exec(a, t, prog, 1,
              [loc |-> NoLocals, calls |-> 0, errs |-> {}, lastReq |-> NoReq,
               active |-> active[a] + 1])

\* Going on in method t after the response to its previous call.
Continue(a, t, prog) ==
    /\ pc[a].t = t /\ pc[a].i \in 2..Len(prog)
    /\ Exec(a, t, prog, pc[a].i,
            [loc |-> loc[a], calls |-> calls[a], errs |-> errs[a],
             lastReq |-> lastReq[a], active |-> active[a]])

\* The wait between two actions ends; the frame of the last action and what it
\* left on record are dropped.
Wait(a) ==
    /\ phase[a] = "running" /\ pc[a].i = 0 /\ pc[a] # Idle
    /\ pc' = [pc EXCEPT ![a] = Idle]
    /\ loc' = [loc EXCEPT ![a] = NoLocals]
    /\ calls' = [calls EXCEPT ![a] = 0]
    /\ errs' = [errs EXCEPT ![a] = {}]
    /\ lastReq' = [lastReq EXCEPT ![a] = NoReq]
    /\ UNCHANGED << kind, phase, cls, inst, active, srv, socks, stop >>

StopSignal ==
    /\ ~stop
    /\ stop' = TRUE
    /\ UNCHANGED << kind, phase, pc, cls, inst, loc, active, calls, errs, lastReq, srv, socks >>

\* A stop that would end an actor wherever it is, in the middle of an action too.
Exit_Abrupt(a) ==
    /\ stop /\ phase[a] \in {"pending", "starting", "running"}
    /\ phase' = [phase EXCEPT ![a] = "stopped"]
    /\ UNCHANGED << kind, pc, cls, inst, loc, active, calls, errs, lastReq, srv, socks, stop >>

\* After the stop signal an actor that is between two actions exits.
Exit(a) ==
    /\ stop /\ phase[a] \in {"pending", "running"} /\ pc[a].i = 0
    /\ phase' = [phase EXCEPT ![a] = "stopped"]
    /\ UNCHANGED << kind, pc, cls, inst, loc, active, calls, errs, lastReq, srv, socks, stop >>

\* An actor of class K runs K's on_start, then K's tasks, one at a time.
Run(a, K, onstart, tasks) ==
    /\ kind[a] = K
    /\ \/ CanSpawn(a) /\ Enter(a, "on_start", onstart)
       \/ phase[a] = "starting" /\ Continue(a, "on_start", onstart)
       \/ \E t \in DOMAIN tasks : CanSelect(a) /\ Enter(a, t, tasks[t])
       \/ \E t \in DOMAIN tasks : phase[a] = "running" /\ Continue(a, t, tasks[t])

\* the three logins that open most on_start methods
LoginToken(user, attr) == ApiLogin(user, << ToAttr("token", attr, "bearer") >>)
\* The login with the line  self.<idattr> = authResponse.json()["userID"]  left out.
LoginTokenID_NoUserID(user, attr, idattr) == LoginToken(user, attr)

LoginTokenID(user, attr, idattr) ==
    ApiLogin(user, << ToAttr("token", attr, "bearer"), ToAttr("userID", idattr, "raw") >>)

ForumAPIUser_on_start == <<
    LoginToken("sam", "samAuth"),
    LoginToken("heidi", "heidiAuth"),
    LoginToken("james", "jamesAuth") >>

ForumAPIUser_readForum == <<
    Req("GET", "/api/v3/forum/categories", "", "samAuth", NoArg,
        << ToLocal("categoryID[Egype]", "egypeCat") >>),
    Req("GET", "/api/v3/forum/categories/{}", "/api/v3/forum/categories/:cat_id", "samAuth",
        Local("egypeCat", FALSE), << ToLocal("forumThreads[0].forumID", "firstForum") >>),
    Req("GET", "/api/v3/forum/{}", "/api/v3/forum/:forum_id", "samAuth",
        Local("firstForum", FALSE), << ToLocal("choice(postID[author!=sam])", "randPost") >>),
    Req("POST", "/api/v3/forum/post/{}/like", "/api/v3/forum/post/:post_id/like", "samAuth",
        Local("randPost", TRUE), << >>),
    Req("POST", "/api/v3/forum/post/{}/unreact", "/api/v3/forum/post/:post_id/unreact",
        "samAuth", Local("randPost", TRUE), << >>),
    Req("POST", "/api/v3/forum/post/{}/bookmark", "/api/v3/forum/post/:post_id/bookmark",
        "samAuth", Local("randPost", TRUE), << >>),
    Req("POST", "/api/v3/forum/post/{}/bookmark/remove",
        "/api/v3/forum/post/:post_id/bookmark/remove", "samAuth",
        Local("randPost", TRUE), << >>) >>

ForumAPIUser_searchPosts == <<
    Req("GET", "/api/v3/forum/post/search?search=hello", "/api/v3/forum/post/search",
        "samAuth", NoArg, << >>) >>

ForumAPIUser_ownForums == <<
    Req("GET", "/api/v3/forum/owner", "/api/v3/forum/owner", "samAuth", NoArg, << >>) >>

ForumAPIUser_createForum == <<
    Req("GET", "/api/v3/forum/categories", "", "samAuth", NoArg,
        << ToLocal("categoryID[General]", "generalCat") >>),
    Req("POST", "/api/v3/forum/categories/{}/create", "/api/v3/forum/categories/:cat_id/create",
        "samAuth", Local("generalCat", FALSE), << ToLocal("forumID", "newForumID") >>),
    Req("POST", "/api/v3/forum/{}/create", "/api/v3/forum/:forum_id/create", "samAuth",
        Local("newForumID", FALSE), << >>),
    Req("POST", "/api/v3/forum/{}/create", "/api/v3/forum/:forum_id/create", "samAuth",
        Local("newForumID", FALSE), << ToLocal("postID", "postToDeleteID") >>),
    Req("GET", "/api/v3/forum/post/{}", "/api/v3/forum/post/:post_id", "samAuth",
        Local("postToDeleteID", TRUE), << >>),
    Req("POST", "/api/v3/forum/post/{}/delete", "/api/v3/forum/post/:post_id/delete",
        "samAuth", Local("postToDeleteID", TRUE), << >>) >>

ForumAPIUser_createRenameForum == <<
    Req("GET", "/api/v3/forum/categories", "", "samAuth", NoArg,
        << ToLocal("categoryID[General]", "generalCat") >>),
    Req("POST", "/api/v3/forum/categories/{}/create", "/api/v3/forum/categories/:cat_id/create",
        "samAuth", Local("generalCat", FALSE), << ToLocal("forumID", "newForumID") >>),
    Req("POST", "/api/v3/forum/{}/create", "/api/v3/forum/:forum_id/create", "samAuth",
        Local("newForumID", FALSE), << ToLocal("postID", "postID") >>),
    Req("POST", "/api/v3/forum/post/{}/update", "/api/v3/forum/post/:post_id/update",
        "samAuth", Local("postID", TRUE), << >>),
    Req("POST", "/api/v3/forum/{}/rename/A%20Locust%20Forum%20We%20Renamed",
        "/api/v3/forum/:forum_id/rename/:new_name", "samAuth",
        Local("newForumID", FALSE), << >>) >>

\* if len(forumsResponse.json()["forumThreads"]) > 0: the length is read from
\* the body (and raises when the body has no forumThreads); the first thread is
\* read only inside the if.
ForumAPIUser_favoriteForum == <<
    Req("GET", "/api/v3/forum/categories", "", "samAuth", NoArg,
        << ToLocal("categoryID[General]", "generalCat") >>),
    Req("GET", "/api/v3/forum/categories/{}", "/api/v3/forum/categories/:cat_id", "samAuth",
        Local("generalCat", FALSE),
        << ToLocal("len(forumThreads)", "n"),
           GetLocal("forumThreads[0].forumID", "firstForum") >>),
    ReqIf(IfNot("firstForum", None), "POST", "/api/v3/forum/{}/favorite",
        "/api/v3/forum/:forum_id/favorite", "samAuth", Local("firstForum", FALSE), << >>),
    ReqIf(IfNot("firstForum", None), "DELETE", "/api/v3/forum/{}/favorite",
        "/api/v3/forum/:forum_id/favorite", "samAuth", Local("firstForum", FALSE), << >>) >>

ForumAPIUser_tasks ==
    [readForum |-> ForumAPIUser_readForum,
     searchPosts |-> ForumAPIUser_searchPosts,
     ownForums |-> ForumAPIUser_ownForums,
     createForum |-> ForumAPIUser_createForum,
     createRenameForum |-> ForumAPIUser_createRenameForum,
     favoriteForum |-> ForumAPIUser_favoriteForum]

ForumWebUser_on_start == <<
    WebLogin("james", << >>),
    LoginToken("james", "jamesAuth"),
    Req("GET", "/api/v3/forum/categories", "", "jamesAuth", NoArg,
        << ToAttr("categoryID[Event Forums]", "eventsCategory", "raw") >>),
    Req("GET", "/api/v3/forum/categories/{}", "/api/v3/forum/categories/:cat_id", "jamesAuth",
        Attr("eventsCategory"), << ToAttr("[forumID]", "forumIDs", "raw") >>) >>

\* a task that is one GET of a fixed page
Page(url, name) == << Req("GET", url, name, "", NoArg, << >>) >>

ForumWebUser_viewEventsForums == <<
    Req("GET", "/forums/{}", "/forums/:category_id", "", Attr("eventsCategory"), << >>) >>

ForumWebUser_viewEventsForumThread == <<
    Req("GET", "/forum/{}", "/forum/:forum_id", "",
        Choice("forumIDs", "randomEvent", FALSE), << >>) >>

ForumWebUser_tasks ==
    [viewCategories |-> Page("/forums", ""),
     viewEventsForums |-> ForumWebUser_viewEventsForums,
     viewEventsForumThread |-> ForumWebUser_viewEventsForumThread,
     searchForums |-> Page("/forum/search?search=locust&searchType=forums", "/forum/search"),
     searchForumPosts |-> Page("/forum/search?search=locust&searchType=posts", "/forum/search"),
     showFavorites |-> Page("/forum/favorites", ""),
     showOwnForums |-> Page("/forum/owned", ""),
     showMentions |-> Page("/forumpost/mentions", ""),
     showFavoritePosts |-> Page("/forumpost/favorite", ""),
     showOwnPosts |-> Page("/forumpost/owned", ""),
     alsoSearchForumPosts |-> Page("/forumpost/search?search=hello", "/forumpost/search")]

\* POST /api/v3/group/create with "initialUsers": [ self.samID, self.jamesID ]
GroupCreate(outs) ==
    ReqJson(<< "samID", "jamesID" >>, "POST", "/api/v3/group/create", "", "heidiAuth",
            NoArg, outs)

SeamailAPIUser_on_start == <<
    LoginTokenID("sam", "samAuth", "samID"),
    LoginTokenID("heidi", "heidiAuth", "heidiID"),
    LoginTokenID("james", "jamesAuth", "jamesID"),
    GroupCreate(<< ToAttr("groupID", "groupID", "raw") >>) >>

SeamailAPIUser_joinedSeamails == <<
    Req("GET", "/api/v3/group/joined?type=private", "", "heidiAuth", NoArg, << >>) >>

SeamailAPIUser_ownedSeamails == <<
    Req("GET", "/api/v3/group/owner?type=private", "", "heidiAuth", NoArg, << >>) >>

\* createSeamail written so that it fetches the group on_start made:
\* self.client.get("/api/v3/group/" + self.groupID, ...)
SeamailAPIUser_createSeamail_ByBootstrapID == <<
    GroupCreate(<< ToLocal("groupID", "newGroupID") >>),
    Req("GET", "/api/v3/group/{}", "/api/v3/group/:group_ID", "samAuth",
        Attr("groupID"), << >>),
    Req("GET", "/api/v3/group/{}", "/api/v3/group/:group_ID", "jamesAuth",
        Attr("groupID"), << >>) >>

SeamailAPIUser_createSeamail == <<
    GroupCreate(<< ToLocal("groupID", "newGroupID") >>),
    Req("GET", "/api/v3/group/{}", "/api/v3/group/:group_ID", "samAuth",
        Local("newGroupID", FALSE), << >>),
    Req("GET", "/api/v3/group/{}", "/api/v3/group/:group_ID", "jamesAuth",
        Local("newGroupID", FALSE), << >>) >>

\* postAndDeleteMsg written so that it keeps what the response gave, found or
\* not, in an attribute:  self.groupID = response.json().get("groupID")
SeamailAPIUser_postAndDeleteMsg_Storing == <<
    Req("POST", "/api/v3/group/{}/post", "/api/v3/group/:group_id/post", "heidiAuth",
        Attr("groupID"), << GetAttr("groupID", "groupID"), ToLocal("postID", "postID") >>),
    Req("DELETE", "/api/v3/group/post/{}", "/api/v3/group/post/:postID", "heidiAuth",
        Local("postID", TRUE), << >>) >>

SeamailAPIUser_postAndDeleteMsg == <<
    Req("POST", "/api/v3/group/{}/post", "/api/v3/group/:group_id/post", "heidiAuth",
        Attr("groupID"), << ToLocal("postID", "postID") >>),
    Req("DELETE", "/api/v3/group/post/{}", "/api/v3/group/post/:postID", "heidiAuth",
        Local("postID", TRUE), << >>) >>

SeamailAPIUser_tasks ==
    [joinedSeamails |-> SeamailAPIUser_joinedSeamails,
     ownedSeamails |-> SeamailAPIUser_ownedSeamails,
     createSeamail |-> SeamailAPIUser_createSeamail,
     postAndDeleteMsg |-> SeamailAPIUser_postAndDeleteMsg]

ProfileAPIUser_on_start == <<
    LoginTokenID("james", "jamesAuth", "jamesID") >>

ProfileAPIUser_findUser == <<
    Req("GET", "/api/v3/users/find/heidi", "/api/v3/users/:username", "jamesAuth",
        NoArg, << >>) >>

ProfileAPIUser_getHeader == <<
    Req("GET", "/api/v3/users/{}", "/api/v3/users/:user_ID", "jamesAuth",
        Attr("jamesID"), << >>) >>

ProfileAPIUser_tasks ==
    [getProfile |-> << Req("GET", "/api/v3/user/profile", "", "jamesAuth", NoArg, << >>) >>,
     whoami |-> << Req("GET", "/api/v3/user/whoami", "", "jamesAuth", NoArg, << >>) >>,
     findUser |-> ProfileAPIUser_findUser,
     getHeader |-> ProfileAPIUser_getHeader,
     userSearch |-> << Req("GET", "/api/v3/users/match/allnames/admin",
                           "/api/v3/users/match/allnames/:search_str", "jamesAuth",
                           NoArg, << >>) >>]

SeamailWebsocketUser_on_start == <<
    LoginTokenID("sam", "samAuth", "samID"),
    LoginTokenID("heidi", "heidiAuth", "heidiID"),
    LoginTokenID("james", "jamesAuth", "jamesID"),
    GroupCreate(<< ToAttr("groupID", "groupID", "raw") >>),
    WebLogin("heidi", << GetAttr("set-cookie", "cookie") >>) >>

\* ws = websocket.create_connection(".../group/<groupID>/socket", cookie=self.cookie)
\* ws.send("test")
\* ws.close()
SeamailWebsocketUser_open_group_websocket == <<
    Req("WS", "ws://{host}/group/{}/socket", "", "cookie", Attr("groupID"), << >>),
    Req("WS-SEND", "ws://{host}/group/{}/socket", "", "", NoArg, << >>),
    Req("WS-CLOSE", "ws://{host}/group/{}/socket", "", "", NoArg, << >>) >>

SeamailWebsocketUser_tasks ==
    [open_group_websocket |-> SeamailWebsocketUser_open_group_websocket]

SeamailWebUser_on_start == <<
    WebLogin("james", << >>),
    LoginTokenID("james", "jamesAuth", "jamesID"),
    LoginTokenID("heidi", "heidiAuth", "heidiID") >>

SeamailWebUser_seamailCreate == <<
    ReqJson(<< "heidiID" >>, "POST", "/seamail/create", "", "", NoArg, << >>) >>

SeamailWebUser_seamailCreateAndView == <<
    ReqJson(<< "heidiID" >>, "POST", "/api/v3/group/create", "", "jamesAuth", NoArg,
            << ToLocal("groupID", "newGroupID") >>),
    Req("GET", "/seamail/{}", "/seamail/:seamail_id", "", Local("newGroupID", FALSE), << >>) >>

SeamailWebUser_tasks ==
    [viewSeamailRoot |-> Page("/seamail", ""),
     viewSeamailCreate |-> Page("/seamail/create", ""),
     seamailUsernameSearch |->
        Page("/seamail/usernames/search/adm", "/seamail/usernames/search/:search_string"),
     seamailCreate |-> SeamailWebUser_seamailCreate,
     seamailCreateAndView |-> SeamailWebUser_seamailCreateAndView]

EventsAPIUser_on_start == <<
    LoginTokenID("james", "jamesAuth", "jamesID"),
    LoginTokenID("heidi", "heidiAuth", "heidiID") >>

\* a task that is one GET with a bearer header
Get(url, auth) == << Req("GET", url, "", auth, NoArg, << >>) >>

\* random.choice(eventIDs) is evaluated twice, each on the list just fetched
EventsAPIUser_getEvents == <<
    Req("GET", "/api/v3/events", "", "heidiAuth", NoArg,
        << ToLocal("choice([eventID])", "randEvent"), ToLocal("choice([eventID])", "favEvent") >>),
    Req("GET", "/api/v3/events/{}", "/api/v3/events/:event_id", "heidiAuth",
        Local("randEvent", FALSE), << >>),
    Req("POST", "/api/v3/events/{}/favorite", "/api/v3/events/:event_id/favorite", "heidiAuth",
        Local("favEvent", FALSE), << >>),
    Req("DELETE", "/api/v3/events/{}/favorite", "/api/v3/events/:event_id/favorite",
        "heidiAuth", Local("favEvent", FALSE), << >>) >>

EventsAPIUser_tasks ==
    [getEvents |-> EventsAPIUser_getEvents,
     searchEvents |-> Get("/api/v3/events?search=cruise", "heidiAuth"),
     getFavoriteEvents |-> Get("/api/v3/events/favorites", "heidiAuth")]

EventsWebUser_on_start == <<
    WebLogin("heidi", << >>),
    LoginTokenID("james", "jamesAuth", "jamesID") >>

EventsWebUser_tasks ==
    [viewEvents |-> Page("/events", ""),
     searchEvents |-> Page("/events?search=cruise", "")]

BoardgamesAPIUser_on_start == <<
    LoginTokenID("james", "jamesAuth", "jamesID") >>

BoardgamesAPIUser_getBoardgames == <<
    Req("GET", "/api/v3/boardgames", "", "jamesAuth", NoArg,
        << ToLocal("choice(gameArray[gameID])", "randGame"),
           ToLocal("choice(gameArray[gameID])", "randExpansion"),
           ToLocal("choice(gameArray[gameID])", "favGame") >>),
    Req("GET", "/api/v3/boardgames/{}", "/api/v3/boardgames/:game_id", "jamesAuth",
        Local("randGame", FALSE), << >>),
    Req("GET", "/api/v3/boardgames/expansions/{}", "/api/v3/boardgames/expansions/:game_id",
        "jamesAuth", Local("randExpansion", FALSE), << >>),
    Req("POST", "/api/v3/boardgames/{}/favorite", "/api/v3/boardgames/:game_id/favorite",
        "jamesAuth", Local("favGame", FALSE), << >>),
    Req("DELETE", "/api/v3/boardgames/{}/favorite", "/api/v3/boardgames/:game_id/favorite",
        "jamesAuth", Local("favGame", FALSE), << >>) >>

BoardgamesAPIUser_tasks ==
    [getBoardgames |-> BoardgamesAPIUser_getBoardgames,
     searchBoardgames |-> Get("/api/v3/boardgames?search=catan", "jamesAuth"),
     getFavoriteBoardgames |-> Get("/api/v3/boardgames?favorite=true", "jamesAuth")]

BoardgamesWebUser_on_start == <<
    WebLogin("heidi", << >>),
    LoginToken("heidi", "heidiAuth") >>

BoardgamesWebUser_viewMakeGameGroupPage == <<
    Req("GET", "/api/v3/boardgames", "", "heidiAuth", NoArg,
        << ToLocal("choice(gameArray[gameID])", "groupGame") >>),
    Req("GET", "/boardgames/{}creategroup", "/boardgames/:game_id/createGroup", "",
        Local("groupGame", FALSE), << >>) >>

BoardgamesWebUser_tasks ==
    [viewBoardgames |-> Page("/boardgames", ""),
     searchGames |-> Page("/boardgames?search=star", ""),
     viewMakeGameGroupPage |-> BoardgamesWebUser_viewMakeGameGroupPage]

KaraokeAPIUser_on_start == <<
    LoginToken("heidi", "heidiAuth") >>

KaraokeAPIUser_tasks ==
    [getSongs |-> Page("/api/v3/karaoke?search=radiohead", ""),
     getLatest |-> Page("/api/v3/karaoke/latest", ""),
     getFavoriteSongs |-> Get("/api/v3/karaoke?favorite=true", "heidiAuth")]

\* the class defines no on_start: the framework's own does nothing
KaraokeWebUser_on_start == << >>

KaraokeWebUser_tasks ==
    [viewSongsRootPage |-> Page("/karaoke", ""),
     viewSongSearch |-> Page("/karaoke?search=prince", "")]

AlertAPIUser_on_start == <<
    LoginTokenID("james", "jamesAuth", "jamesID") >>

AlertAPIUser_tasks ==
    [getNotifications |-> Get("/api/v3/notification/global", "jamesAuth"),
     getAnnouncements |-> Get("/api/v3/notification/announcements", "jamesAuth"),
     getDailyThemes |-> Get("/api/v3/notification/dailythemes", "jamesAuth")]

SeamailWebUser(a) == Run(a, "SeamailWebUser", SeamailWebUser_on_start, SeamailWebUser_tasks)
EventsAPIUser(a) == Run(a, "EventsAPIUser", EventsAPIUser_on_start, EventsAPIUser_tasks)
EventsWebUser(a) == Run(a, "EventsWebUser", EventsWebUser_on_start, EventsWebUser_tasks)
BoardgamesAPIUser(a) ==
    Run(a, "BoardgamesAPIUser", BoardgamesAPIUser_on_start, BoardgamesAPIUser_tasks)
BoardgamesWebUser(a) ==
    Run(a, "BoardgamesWebUser", BoardgamesWebUser_on_start, BoardgamesWebUser_tasks)
KaraokeAPIUser(a) == Run(a, "KaraokeAPIUser", KaraokeAPIUser_on_start, KaraokeAPIUser_tasks)
KaraokeWebUser(a) == Run(a, "KaraokeWebUser", KaraokeWebUser_on_start, KaraokeWebUser_tasks)
AlertAPIUser(a) == Run(a, "AlertAPIUser", AlertAPIUser_on_start, AlertAPIUser_tasks)
LoggedOutUser(a) == Run(a, "LoggedOutUser", LoggedOutUser_on_start, LoggedOutUser_tasks)
ForumAPIUser(a) == Run(a, "ForumAPIUser", ForumAPIUser_on_start, ForumAPIUser_tasks)
ForumWebUser(a) == Run(a, "ForumWebUser", ForumWebUser_on_start, ForumWebUser_tasks)
SeamailAPIUser(a) == Run(a, "SeamailAPIUser", SeamailAPIUser_on_start, SeamailAPIUser_tasks)
ProfileAPIUser(a) == Run(a, "ProfileAPIUser", ProfileAPIUser_on_start, ProfileAPIUser_tasks)
SeamailWebsocketUser(a) ==
    Run(a, "SeamailWebsocketUser", SeamailWebsocketUser_on_start, SeamailWebsocketUser_tasks)
TwarrtAPIUser(a) == Run(a, "TwarrtAPIUser", TwarrtAPIUser_on_start, TwarrtAPIUser_tasks)
TwarrtUser(a) == Run(a, "TwarrtUser", TwarrtUser_on_start, TwarrtUser_tasks)

\* Classes whose instances meet on the server (the same twarrts, forums or
\* groups) or share a class object run together; the others share nothing.
Families == { {"TwarrtAPIUser", "TwarrtUser"}, {"ForumAPIUser", "ForumWebUser"},
              {"SeamailAPIUser", "SeamailWebUser", "SeamailWebsocketUser"},
              {"EventsAPIUser", "EventsWebUser"}, {"BoardgamesAPIUser", "BoardgamesWebUser"},
              {"KaraokeAPIUser", "KaraokeWebUser"},
              {"LoggedOutUser", "AlertAPIUser", "ProfileAPIUser"} }

\* One population per pair of classes of a family (which actor has which class
\* of the pair makes no difference).
Populations ==
    { k \in [Actors -> Kinds] :
        /\ \E F \in Families : \A a \in Actors : k[a] \in F
        /\ k["u1"] = k["u2"] \/ k["u1"] = CHOOSE x \in {k["u1"], k["u2"]} : TRUE }

InitWith(pop) ==
    /\ kind \in pop
    /\ phase = [a \in Actors |-> "pending"]
    /\ pc = [a \in Actors |-> Idle]
    /\ cls = ClassDefaults
    /\ inst = [a \in Actors |-> NoLocals]
    /\ loc = [a \in Actors |-> NoLocals]
    /\ active = [a \in Actors |-> 0]
    /\ calls = [a \in Actors |-> 0]
    /\ errs = [a \in Actors |-> {}]
    /\ lastReq = [a \in Actors |-> NoReq]
    /\ srv \in { [live |-> {}, next |-> 1, groups |-> 0, members |-> << >>],
                 [live |-> {1}, next |-> 2, groups |-> 0, members |-> << >>] }
    /\ socks = [a \in Actors |-> 0]
    /\ stop = FALSE

Init == InitWith(Populations)

Next ==
    \E a \in Actors :
        \/ Wait(a)
        \/ LoggedOutUser(a)
        \/ TwarrtAPIUser(a)
        \/ TwarrtUser(a)
        \/ ForumAPIUser(a)
        \/ ForumWebUser(a)
        \/ SeamailAPIUser(a)
        \/ SeamailWebUser(a)
        \/ EventsAPIUser(a)
        \/ EventsWebUser(a)
        \/ BoardgamesAPIUser(a)
        \/ BoardgamesWebUser(a)
        \/ KaraokeAPIUser(a)
        \/ KaraokeWebUser(a)
        \/ AlertAPIUser(a)
        \/ ProfileAPIUser(a)
        \/ SeamailWebsocketUser(a)

Spec == Init /\ [][Next]_vars

\* ------------------------------------------------------ request labels
\* The URL and name= strings of the requests whose URL is built around a value,
\* cut at every "/" and "=" ("{}" is where the value goes).
Split ==
    ("/api/v3/boardgames/:game_id" :>
        << "api", "v3", "boardgames", ":game_id" >>) @@
    ("/api/v3/boardgames/:game_id/favorite" :>
        << "api", "v3", "boardgames", ":game_id", "favorite" >>) @@
    ("/api/v3/boardgames/expansions/:game_id" :>
        << "api", "v3", "boardgames", "expansions", ":game_id" >>) @@
    ("/api/v3/boardgames/expansions/{}" :>
        << "api", "v3", "boardgames", "expansions", "{}" >>) @@
    ("/api/v3/boardgames/{}" :>
        << "api", "v3", "boardgames", "{}" >>) @@
    ("/api/v3/boardgames/{}/favorite" :>
        << "api", "v3", "boardgames", "{}", "favorite" >>) @@
    ("/api/v3/events/:event_id" :>
        << "api", "v3", "events", ":event_id" >>) @@
    ("/api/v3/events/:event_id/favorite" :>
        << "api", "v3", "events", ":event_id", "favorite" >>) @@
    ("/api/v3/events/{}" :>
        << "api", "v3", "events", "{}" >>) @@
    ("/api/v3/events/{}/favorite" :>
        << "api", "v3", "events", "{}", "favorite" >>) @@
    ("/api/v3/forum/:forum_id" :>
        << "api", "v3", "forum", ":forum_id" >>) @@
    ("/api/v3/forum/:forum_id/create" :>
        << "api", "v3", "forum", ":forum_id", "create" >>) @@
    ("/api/v3/forum/:forum_id/rename/:new_name" :>
        << "api", "v3", "forum", ":forum_id", "rename", ":new_name" >>) @@
    ("/api/v3/forum/categories/:cat_id" :>
        << "api", "v3", "forum", "categories", ":cat_id" >>) @@
    ("/api/v3/forum/categories/:cat_id/create" :>
        << "api", "v3", "forum", "categories", ":cat_id", "create" >>) @@
    ("/api/v3/forum/categories/{}" :>
        << "api", "v3", "forum", "categories", "{}" >>) @@
    ("/api/v3/forum/categories/{}/create" :>
        << "api", "v3", "forum", "categories", "{}", "create" >>) @@
    ("/api/v3/forum/post/:post_id" :>
        << "api", "v3", "forum", "post", ":post_id" >>) @@
    ("/api/v3/forum/post/:post_id/bookmark" :>
        << "api", "v3", "forum", "post", ":post_id", "bookmark" >>) @@
    ("/api/v3/forum/post/:post_id/bookmark/remove" :>
        << "api", "v3", "forum", "post", ":post_id", "bookmark", "remove" >>) @@
    ("/api/v3/forum/post/:post_id/delete" :>
        << "api", "v3", "forum", "post", ":post_id", "delete" >>) @@
    ("/api/v3/forum/post/:post_id/like" :>
        << "api", "v3", "forum", "post", ":post_id", "like" >>) @@
    ("/api/v3/forum/post/:post_id/unreact" :>
        << "api", "v3", "forum", "post", ":post_id", "unreact" >>) @@
    ("/api/v3/forum/post/:post_id/update" :>
        << "api", "v3", "forum", "post", ":post_id", "update" >>) @@
    ("/api/v3/forum/post/{}" :>
        << "api", "v3", "forum", "post", "{}" >>) @@
    ("/api/v3/forum/post/{}/bookmark" :>
        << "api", "v3", "forum", "post", "{}", "bookmark" >>) @@
    ("/api/v3/forum/post/{}/bookmark/remove" :>
        << "api", "v3", "forum", "post", "{}", "bookmark", "remove" >>) @@
    ("/api/v3/forum/post/{}/delete" :>
        << "api", "v3", "forum", "post", "{}", "delete" >>) @@
    ("/api/v3/forum/post/{}/like" :>
        << "api", "v3", "forum", "post", "{}", "like" >>) @@
    ("/api/v3/forum/post/{}/unreact" :>
        << "api", "v3", "forum", "post", "{}", "unreact" >>) @@
    ("/api/v3/forum/post/{}/update" :>
        << "api", "v3", "forum", "post", "{}", "update" >>) @@
    ("/api/v3/forum/{}" :>
        << "api", "v3", "forum", "{}" >>) @@
    ("/api/v3/forum/{}/create" :>
        << "api", "v3", "forum", "{}", "create" >>) @@
    ("/api/v3/forum/{}/rename/A%20Locust%20Forum%20We%20Renamed" :>
        << "api", "v3", "forum", "{}", "rename", "A%20Locust%20Forum%20We%20Renamed" >>) @@
    ("/api/v3/group/:group_ID" :>
        << "api", "v3", "group", ":group_ID" >>) @@
    ("/api/v3/group/:group_id/post" :>
        << "api", "v3", "group", ":group_id", "post" >>) @@
    ("/api/v3/group/post/:postID" :>
        << "api", "v3", "group", "post", ":postID" >>) @@
    ("/api/v3/group/post/{}" :>
        << "api", "v3", "group", "post", "{}" >>) @@
    ("/api/v3/group/{}" :>
        << "api", "v3", "group", "{}" >>) @@
    ("/api/v3/group/{}/post" :>
        << "api", "v3", "group", "{}", "post" >>) @@
    ("/api/v3/twitarr/:id" :>
        << "api", "v3", "twitarr", ":id" >>) @@
    ("/api/v3/twitarr/:id/bookmark" :>
        << "api", "v3", "twitarr", ":id", "bookmark" >>) @@
    ("/api/v3/twitarr/:id/bookmark/remove" :>
        << "api", "v3", "twitarr", ":id", "bookmark", "remove" >>) @@
    ("/api/v3/twitarr/:id/like" :>
        << "api", "v3", "twitarr", ":id", "like" >>) @@
    ("/api/v3/twitarr/:id/love" :>
        << "api", "v3", "twitarr", ":id", "love" >>) @@
    ("/api/v3/twitarr/:id/reply" :>
        << "api", "v3", "twitarr", ":id", "reply" >>) @@
    ("/api/v3/twitarr/:id/report" :>
        << "api", "v3", "twitarr", ":id", "report" >>) @@
    ("/api/v3/twitarr/:id/unreact" :>
        << "api", "v3", "twitarr", ":id", "unreact" >>) @@
    ("/api/v3/twitarr/:id/update" :>
        << "api", "v3", "twitarr", ":id", "update" >>) @@
    ("/api/v3/twitarr/{}" :>
        << "api", "v3", "twitarr", "{}" >>) @@
    ("/api/v3/twitarr/{}/bookmark" :>
        << "api", "v3", "twitarr", "{}", "bookmark" >>) @@
    ("/api/v3/twitarr/{}/bookmark/remove" :>
        << "api", "v3", "twitarr", "{}", "bookmark", "remove" >>) @@
    ("/api/v3/twitarr/{}/like" :>
        << "api", "v3", "twitarr", "{}", "like" >>) @@
    ("/api/v3/twitarr/{}/love" :>
        << "api", "v3", "twitarr", "{}", "love" >>) @@
    ("/api/v3/twitarr/{}/reply" :>
        << "api", "v3", "twitarr", "{}", "reply" >>) @@
    ("/api/v3/twitarr/{}/report" :>
        << "api", "v3", "twitarr", "{}", "report" >>) @@
    ("/api/v3/twitarr/{}/unreact" :>
        << "api", "v3", "twitarr", "{}", "unreact" >>) @@
    ("/api/v3/twitarr/{}/update" :>
        << "api", "v3", "twitarr", "{}", "update" >>) @@
    ("/api/v3/users/:user_ID" :>
        << "api", "v3", "users", ":user_ID" >>) @@
    ("/api/v3/users/{}" :>
        << "api", "v3", "users", "{}" >>) @@
    ("/boardgames/:game_id/createGroup" :>
        << "boardgames", ":game_id", "createGroup" >>) @@
    ("/boardgames/{}creategroup" :>
        << "boardgames", "{}creategroup" >>) @@
    ("/forum/:forum_id" :>
        << "forum", ":forum_id" >>) @@
    ("/forum/{}" :>
        << "forum", "{}" >>) @@
    ("/forums/:category_id" :>
        << "forums", ":category_id" >>) @@
    ("/forums/{}" :>
        << "forums", "{}" >>) @@
    ("/seamail/:seamail_id" :>
        << "seamail", ":seamail_id" >>) @@
    ("/seamail/{}" :>
        << "seamail", "{}" >>) @@
    ("/tweets/:id" :>
        << "tweets", ":id" >>) @@
    ("/tweets/:id/bookmark" :>
        << "tweets", ":id", "bookmark" >>) @@
    ("/tweets/:id/delete" :>
        << "tweets", ":id", "delete" >>) @@
    ("/tweets/edit/:id" :>
        << "tweets", "edit", ":id" >>) @@
    ("/tweets/edit/{}" :>
        << "tweets", "edit", "{}" >>) @@
    ("/tweets/reply/:id" :>
        << "tweets", "reply", ":id" >>) @@
    ("/tweets/reply/{}" :>
        << "tweets", "reply", "{}" >>) @@
    ("/tweets/{}" :>
        << "tweets", "{}" >>) @@
    ("/tweets/{}/bookmark" :>
        << "tweets", "{}", "bookmark" >>) @@
    ("/tweets/{}/delete" :>
        << "tweets", "{}", "delete" >>) @@
    ("/tweets?replyGroup=:id" :>
        << "tweets?replyGroup", ":id" >>) @@
    ("/tweets?replyGroup={}" :>
        << "tweets?replyGroup", "{}" >>) @@
    ("/api/v3/forum/:forum_id/favorite" :>
        << "api", "v3", "forum", ":forum_id", "favorite" >>) @@
    ("/api/v3/forum/{}/favorite" :>
        << "api", "v3", "forum", "{}", "favorite" >>) @@
    ("/tweets/:id/like" :>
        << "tweets", ":id", "like" >>) @@
    ("/tweets/:id/unreact" :>
        << "tweets", ":id", "unreact" >>) @@
    ("/tweets/{}/like" :>
        << "tweets", "{}", "like" >>) @@
    ("/tweets/{}/unreact" :>
        << "tweets", "{}", "unreact" >>)

\* the placeholder tokens the labels use
PlaceholderTokens ==
    { ":cat_id", ":category_id", ":event_id", ":forum_id", ":game_id",
      ":group_ID", ":group_id", ":id", ":new_name", ":postID",
      ":post_id", ":seamail_id", ":user_ID" }

\* What the client files a request under: the name= given to it, else the URL
\* as it was built, value included.
Label(url, name, seg) == IF name = "" THEN << url, seg >> ELSE << name >>

\* Label l is the template of path p: the same fixed pieces in the same
\* places, and a placeholder wherever the path has a value.
IsTemplateOf(l, p) ==
    /\ Len(l) = Len(p)
    /\ \A i \in 1..Len(l) :
          IF p[i] = "{}" THEN l[i] \in PlaceholderTokens
          ELSE l[i] = p[i] \/ l[i] \in PlaceholderTokens

\* ---------------------------------------------------------------- claims
TasksOf ==
    [LoggedOutUser |-> LoggedOutUser_tasks,
     TwarrtAPIUser |-> TwarrtAPIUser_tasks,
     TwarrtUser |-> TwarrtUser_tasks,
     ForumAPIUser |-> ForumAPIUser_tasks,
     ForumWebUser |-> ForumWebUser_tasks,
     SeamailAPIUser |-> SeamailAPIUser_tasks,
     SeamailWebUser |-> SeamailWebUser_tasks,
     EventsAPIUser |-> EventsAPIUser_tasks,
     EventsWebUser |-> EventsWebUser_tasks,
     BoardgamesAPIUser |-> BoardgamesAPIUser_tasks,
     BoardgamesWebUser |-> BoardgamesWebUser_tasks,
     KaraokeAPIUser |-> KaraokeAPIUser_tasks,
     KaraokeWebUser |-> KaraokeWebUser_tasks,
     AlertAPIUser |-> AlertAPIUser_tasks,
     ProfileAPIUser |-> ProfileAPIUser_tasks,
     SeamailWebsocketUser |-> SeamailWebsocketUser_tasks]

InTask(a) == pc[a].t \in DOMAIN TasksOf[kind[a]]
\* the task of a has been left and a is in the wait that follows it
LeftTask(a) == InTask(a) /\ pc[a].i = 0
\* a chained task picks an ID out of a cache before its first call
Chained(a) == InTask(a) /\ TasksOf[kind[a]][pc[a].t][1].arg.k = "choice"
CacheOf(a) == Read(a, TasksOf[kind[a]][pc[a].t][1].arg.v)

\* C1: a chained action that starts with its cache empty issues no call and
\* ends without an error.
C1_EmptyCacheSkips ==
    \A a \in Actors :
        (Chained(a) /\ LeftTask(a) /\ CacheOf(a) = {})
            => (calls[a] = 0 /\ errs[a] = {})

\* The part of C1 the code keeps: with the cache empty no call is issued.
C1_EmptyCacheNoCall ==
    \A a \in Actors :
        (Chained(a) /\ LeftTask(a) /\ CacheOf(a) = {}) => calls[a] = 0

\* C2: an actor has at most one method (on_start or a task) in execution, and
\* it is in one exactly when it is at a call.
C2_OneActionAtATime ==
    \A a \in Actors :
        /\ active[a] \in {0, 1}
        /\ active[a] = 1 <=> pc[a].i > 0

\* Both actors are in the middle of a multi-request action at once.
C2_Witness ==
    /\ pc["u1"].t = "newTwarrt" /\ pc["u1"].i > 2
    /\ pc["u2"].t = "newTwarrt" /\ pc["u2"].i > 2

\* every attribute of self that some task of a's class reads
TaskAttrs(a) ==
    UNION { UNION { AttrsRead(TasksOf[kind[a]][t][i]) : i \in 1..Len(TasksOf[kind[a]][t]) } :
              t \in DOMAIN TasksOf[kind[a]] }

\* the class-level placeholders a request could be built from
Placeholders == { Bearer(EmptyStr), EmptyStr }

\* C3: whatever a task of a running actor reads from self is an attribute the
\* actor's own on_start has assigned (an instance attribute, never the class
\* default), and no request of a task carries the empty bearer header or an
\* empty ID in its path.
C3_TasksReadOwnBootstrap ==
    \A a \in Actors :
        /\ phase[a] = "running" => TaskAttrs(a) \subseteq DOMAIN inst[a]
        /\ (InTask(a) /\ lastReq[a].m # "") =>
              /\ lastReq[a].attrs \subseteq DOMAIN inst[a]
              /\ lastReq[a].cred \notin Placeholders
              /\ lastReq[a].arg \in {"attr", "choice"} => lastReq[a].seg \notin Placeholders
              /\ \A j \in DOMAIN lastReq[a].json : lastReq[a].json[j] \notin Placeholders

\* An actor is sending a task request built from three values its on_start
\* stored: the bearer header and the two user IDs.
C3_Witness ==
    \E a \in Actors :
        /\ kind[a] = "SeamailAPIUser" /\ pc[a].t = "createSeamail"
        /\ lastReq[a].cred = Bearer(Token("heidi"))
        /\ lastReq[a].json = << UserID("sam"), UserID("james") >>

\* the method a has last been in ended with a failure on record
EndedFailed(a) == pc[a].i = 0 /\ errs[a] # {}

\* C4: an actor whose on_start ended with a failure on record (a call that
\* got no response or an error status, a field that could not be read) is
\* failed: it is not in the task loop.
C4_FailedBootstrapNeverRuns ==
    \A a \in Actors :
        (pc[a].t = "on_start" /\ EndedFailed(a)) => phase[a] = "failed"

\* What the code keeps of C4: an on_start that raised leaves the actor
\* failed for good, and stops nobody else.
C4_RaisedBootstrapNeverRuns ==
    /\ \A a \in Actors :
          (pc[a].t = "on_start" /\ pc[a].i = 0 /\ "exception" \in errs[a])
              <=> phase[a] = "failed"
    /\ ~stop

\* a step of actor a
Moved(a) == pc'[a] # pc[a]

\* C5: a task that fails (an error status, a body that cannot be read, a
\* missing field) has the failure recorded against that action alone, leaves
\* what on_start stored untouched, and the actor, still in its loop, drops the
\* record in the wait and can be given its next action.
C5_TaskFailureIsLocal ==
    /\ [](\A a \in Actors : (InTask(a) /\ EndedFailed(a)) => ENABLED Wait(a))
    /\ [][\A a \in Actors :
            /\ (phase[a] = "running" /\ Moved(a)) =>
                  /\ inst'[a] = inst[a] /\ cls' = cls
                  /\ phase'[a] = "running"
                  /\ \A b \in Actors \ {a} :
                        errs'[b] = errs[b] /\ phase'[b] = phase[b] /\ inst'[b] = inst[b]
            /\ (InTask(a) /\ EndedFailed(a) /\ Moved(a)) =>
                  /\ pc'[a] = Idle /\ errs'[a] = {} /\ calls'[a] = 0
                  /\ \E t \in DOMAIN TasksOf[kind[a]] : ENABLED Enter(a, t, TasksOf[kind[a]][t])
       ]_vars

\* readForum has failed at its third call, on a post list with no post to pick.
C5_Witness ==
    \E a \in Actors :
        /\ pc[a] = At("readForum", 0) /\ calls[a] = 3 /\ errs[a] = {"exception"}
        /\ inst[a] # NoLocals

\* C7: the class objects keep their defaults for ever; what an actor has
\* stored changes only in a step of that same actor's on_start; so what an
\* actor reads from self in a task is what it assigned itself.
C7_NoCrossActorWrites ==
    /\ [](cls = ClassDefaults)
    /\ [](\A a \in Actors : (InTask(a) /\ lastReq[a].m # "") =>
             lastReq[a].attrs \subseteq DOMAIN inst[a])
    /\ [][\A b \in Actors :
            inst'[b] # inst[b] => (Moved(b) /\ pc'[b].t = "on_start")]_vars

\* Two actors of one class hold different caches at the same time.
C7_Witness ==
    /\ kind["u1"] = "TwarrtAPIUser" /\ kind["u2"] = "TwarrtAPIUser"
    /\ phase["u1"] = "running" /\ phase["u2"] = "running"
    /\ inst["u1"].existingTwarrts # inst["u2"].existingTwarrts
    /\ InTask("u1") /\ lastReq["u1"].arg = "choice"

\* the local variable in which a task holds the twarrt ID the server returned
ReturnedID ==
    [newTwarrt |-> "maxTwarrt", replyToTwarrt |-> "newTwarrtID",
     reportTwarrt |-> "reportTwarrt", createEditDeleteTweet |-> "newTwarrtID"]

\* the task of a that returns a new twarrt ID has completed with no failure
CreatedTwarrt(a) ==
    /\ pc[a].t \in DOMAIN ReturnedID /\ pc[a].i = 0 /\ errs[a] = {}
    /\ ReturnedID[pc[a].t] \in DOMAIN loc[a]

\* C8 as stated: after such a task the returned ID is in existingTwarrts.
C8_CacheGrows ==
    \A a \in Actors :
        CreatedTwarrt(a) => loc[a][ReturnedID[pc[a].t]] \in Read(a, "existingTwarrts")

\* C8, amended: no task writes a cache.  What on_start stored stays as it is
\* through every task step, the ID a task got back is not in existingTwarrts
\* afterwards, and the group createSeamail made is not the actor's groupID.
C8_CacheFixedByBootstrap ==
    /\ [](\A a \in Actors :
             CreatedTwarrt(a) => loc[a][ReturnedID[pc[a].t]] \notin Read(a, "existingTwarrts"))
    /\ [](\A a \in Actors :
             (pc[a] = At("createSeamail", 0) /\ errs[a] = {}) =>
                 loc[a].newGroupID # Read(a, "groupID"))
    /\ [][\A a \in Actors : phase[a] = "running" => inst'[a] = inst[a]]_vars

\* newTwarrt has run all its eight calls with no failure, from a non-empty cache.
C8_Witness ==
    \E a \in Actors :
        /\ pc[a] = At("newTwarrt", 0) /\ calls[a] = 8 /\ errs[a] = {}
        /\ CreatedTwarrt(a) /\ Read(a, "existingTwarrts") # {}

\* C9: every socket open carries the session cookie of the actor's own login.
C9_SocketCarriesSessionCookie ==
    \A a \in Actors : lastReq[a].m = "WS" => lastReq[a].cred = Cookie("heidi")

\* the step of a in which the handshake of open_group_websocket fails
HandshakeFails(a) ==
    /\ Moved(a) /\ pc'[a] = At("open_group_websocket", 0)
    /\ lastReq'[a].m = "WS" /\ "exception" \in errs'[a]

\* C10: a failed handshake fails that one action.  The actor stays in its loop
\* with what it stored and the connections it holds unchanged, no other actor
\* is touched, the run is not stopped, and after the wait the task can be
\* entered again.
C10_HandshakeFailureIsLocal ==
    [][\A a \in Actors :
         /\ HandshakeFails(a) =>
               /\ phase'[a] = "running" /\ inst'[a] = inst[a] /\ socks' = socks
               /\ calls'[a] = 1
               /\ \A b \in Actors \ {a} : phase'[b] = phase[b] /\ pc'[b] = pc[b]
               /\ stop' = stop
         /\ (pc[a] = At("open_group_websocket", 0) /\ errs[a] # {} /\ Moved(a)) =>
               /\ pc'[a] = Idle /\ errs'[a] = {}
               /\ ENABLED Enter(a, "open_group_websocket",
                                SeamailWebsocketUser_open_group_websocket)
      ]_vars

\* A handshake was refused although the actor sent its session cookie.
C10_Witness ==
    \E a \in Actors :
        /\ pc[a] = At("open_group_websocket", 0) /\ "exception" \in errs[a]
        /\ lastReq[a].m = "WS" /\ lastReq[a].cred = Cookie("heidi")

\* a request sent through the client whose URL was built around a value
Templated(q) == q.m \notin {"", "WS", "WS-SEND", "WS-CLOSE"} /\ q.arg # "none"

\* the label does not change with the value in the URL
FixedLabel(q) ==
    \A n \in 1..MaxTwarrt : Label(q.url, q.name, Str(n)) = Label(q.url, q.name, q.seg)

\* C11: a request whose path holds an ID is filed under a label that is the
\* same for every ID and is the template of the path requested, and two such
\* requests of one HTTP method with one label go to one endpoint.
C11_LabelsAreEndpointTemplates ==
    /\ \A a \in Actors :
          Templated(lastReq[a]) =>
              /\ FixedLabel(lastReq[a])
              /\ IsTemplateOf(Split[lastReq[a].name], Split[lastReq[a].url])
    /\ \A a, b \in Actors :
          (/\ Templated(lastReq[a]) /\ Templated(lastReq[b])
           /\ lastReq[a].m = lastReq[b].m /\ lastReq[a].name = lastReq[b].name)
              => Split[lastReq[a].url] = Split[lastReq[b].url]

\* What the code keeps of C11: the label is fixed, and one label of one method
\* is one endpoint.
C11_LabelsAreFixed ==
    /\ \A a \in Actors : Templated(lastReq[a]) => FixedLabel(lastReq[a])
    /\ \A a, b \in Actors :
          (/\ Templated(lastReq[a]) /\ Templated(lastReq[b])
           /\ lastReq[a].m = lastReq[b].m /\ lastReq[a].name = lastReq[b].name)
              => Split[lastReq[a].url] = Split[lastReq[b].url]

\* a is in createSeamail and its last request was a fetch of a group
Fetching(a) ==
    /\ kind[a] = "SeamailAPIUser" /\ pc[a].t = "createSeamail"
    /\ lastReq[a].url = "/api/v3/group/{}"

Deleted(s) == (1..(s.next - 1)) \ s.live

HasCache(a) == "existingTwarrts" \in DOMAIN inst[a]

\* C13: no actor's existingTwarrts holds the ID of a deleted twarrt, and no
\* request built from the cache names one.
C13_NoDeletedTwarrtInCache ==
    \A a \in Actors :
        HasCache(a) =>
            /\ inst[a].existingTwarrts \cap Deleted(srv) = {}
            /\ (InTask(a) /\ lastReq[a].arg = "choice") =>
                   TwarrtNum(lastReq[a].seg) \notin Deleted(srv)

\* What the code keeps of C13: a cache holds only IDs the server has handed
\* out, and a listing never shows a twarrt deleted before it: in the step that
\* fills a cache, every ID put in it is live.
C13_CacheWasLiveWhenListed ==
    /\ [](\A a \in Actors :
             HasCache(a) => inst[a].existingTwarrts \subseteq 1..(srv.next - 1))
    /\ [][\A a \in Actors :
            (HasCache(a)' /\ ~HasCache(a)) => inst'[a].existingTwarrts \subseteq srv'.live]_vars

\* C14: every connection open_group_websocket opens is closed before the
\* action ends, whether ws.send succeeded or raised: an actor that is not inside
\* an action holds no open connection.
C14_NoSocketOutlivesItsAction ==
    \A a \in Actors :
        (kind[a] = "SeamailWebsocketUser" /\ pc[a].i = 0) => socks[a] = 0

\* What the code does keep: a connection is only ever open on an actor that
\* opened it in open_group_websocket, at most one more is open after an action
\* than before it, and an action whose three calls all succeeded leaves none
\* behind.
C14_SocketClosedAfterSend ==
    /\ [](\A a \in Actors : socks[a] > 0 => kind[a] = "SeamailWebsocketUser")
    /\ [][\A a \in Actors :
            /\ socks'[a] \in {socks[a] - 1, socks[a], socks[a] + 1}
            /\ (socks'[a] = socks[a] + 1) => lastReq'[a].m = "WS"
            /\ (Moved(a) /\ lastReq'[a].m = "WS-CLOSE") =>
                   /\ socks'[a] = socks[a] - 1
                   /\ pc'[a] = At("open_group_websocket", 0)
            /\ (Moved(a) /\ lastReq'[a].m = "WS-SEND" /\ "exception" \notin errs'[a]) =>
                   pc'[a] = At("open_group_websocket", 3)]_vars

\* the page each action of a logged-out visitor is said to request
LoggedOutPages ==
    ("rootPage" :> "/") @@ ("eventsPage" :> "/events") @@ ("boardgamePage" :> "/karaoke")

\* C15: a LoggedOutUser has exactly three actions to pick from, and they
\* request GET /, GET /events and GET /karaoke: the action named boardgamePage
\* is the second def, so no LoggedOutUser ever requests /boardgames.
C15_LoggedOutUserNeverGetsBoardgames ==
    \A a \in Actors :
        kind[a] = "LoggedOutUser" =>
            /\ pc[a].t \in {"", "on_start"} \cup DOMAIN LoggedOutPages
            /\ lastReq[a].url # "/boardgames"
            /\ pc[a].t \in DOMAIN LoggedOutPages =>
                   /\ lastReq[a].m = "GET" /\ lastReq[a].cred = NoAuth
                   /\ lastReq[a].url = LoggedOutPages[pc[a].t]
            /\ CanSelect(a) =>
                   \A t \in DOMAIN LoggedOutPages :
                       ENABLED (LoggedOutUser(a) /\ pc'[a].t = t)

\* A LoggedOutUser has run boardgamePage, and it requested the karaoke page.
C15_Witness ==
    \E a \in Actors :
        /\ kind[a] = "LoggedOutUser" /\ pc[a] = At("boardgamePage", 0)
        /\ lastReq[a].m = "GET" /\ lastReq[a].url = "/karaoke"

\* ------------------------------------------------------- the run, stopped
\* The run with its stop signal, for one actor of the class with the longest
\* action (newTwarrt) and one of the class that holds a connection open
\* (open_group_websocket).
StopPopulations ==
    { k \in [Actors -> Kinds] :
        k["u1"] = "TwarrtAPIUser" /\ k["u2"] = "SeamailWebsocketUser" }

StopInit == InitWith(StopPopulations)

\* what actor a can do: go on in its method, start one, end its wait, or exit
ActorStep(a) ==
    \/ Wait(a)
    \/ Exit(a)
    \/ TwarrtAPIUser(a)
    \/ SeamailWebsocketUser(a)

StopNext == StopSignal \/ \E a \in Actors : ActorStep(a)

\* Every actor that can take a step eventually takes one: each call is
\* answered or fails, and the scheduler runs every actor that is ready.
StopSpec == StopInit /\ [][StopNext]_vars /\ \A a \in Actors : WF_vars(ActorStep(a))

\* the actor is out of the run: stopped, or ended by its own on_start
Gone(a) == phase[a] \in {"stopped", "failed"}

\* C6: after the stop signal no actor enters a method; an actor is stopped only
\* between two actions, so an action in flight runs to its end (newTwarrt that
\* met no exception has sent all eight requests, createDeleteTwarrt both);
\* and every actor is eventually out of the run.
C6_GracefulStop ==
    /\ [][\A a \in Actors :
            /\ (stop /\ Moved(a) /\ pc[a].i = 0) => pc'[a] = Idle
            /\ (phase'[a] = "stopped" /\ phase[a] # "stopped") =>
                  (stop /\ pc[a].i = 0 /\ active[a] = 0)
            /\ (stop /\ pc[a].i > 0) => (stop' /\ pc'[a].t = pc[a].t)
       ]_vars
    /\ [](\A a \in Actors :
             /\ (pc[a] = At("newTwarrt", 0) /\ "exception" \notin errs[a]) => calls[a] = 8
             /\ (pc[a] = At("createDeleteTwarrt", 0) /\ "exception" \notin errs[a]) =>
                    calls[a] = 2)
    /\ (stop ~> (\A a \in Actors : Gone(a)))

\* After the signal one actor is at the last request of the newTwarrt it had
\* begun, while the other has already stopped.
C6_Witness ==
    /\ stop
    /\ \E a \in Actors : pc[a] = At("newTwarrt", 8) /\ calls[a] = 7
    /\ \E b \in Actors : phase[b] = "stopped"

====
